---- MODULE Spec2Model ----
(***************************************************************************)
(* Company / membership data layer (convex/lib/companies.ts) and the       *)
(* debounced-value hook (lib/use-debounced-value.ts).                      *)
(*                                                                         *)
(* Spec      : the companies table under syncCompanyPlan, whose index      *)
(*             lookup and insert/patch are separate atomic store steps.    *)
(* ReadSpec  : requireCompany and getMyCompanyContext over the tables      *)
(*             syncCompanyPlan leaves behind.                              *)
(* GuardSpec : requireActiveMembership and requireCompanyRole over every   *)
(*             bounded companyMembers table.                               *)
(* UsageSpec : getCompanyUsage and getMyCompanyUsage over bounded          *)
(*             companyMembers and jobs tables.                             *)
(* HookSpec  : useDebouncedValue as a timer state machine.                 *)
(***************************************************************************)
EXTENDS Integers, Sequences, FiniteSets, Bags, TLC

VARIABLES
    companies,   \* table "companies": sequence of rows, the index is the row's _id
    members,     \* table "companyMembers": set of rows
    jobs,        \* table "jobs": whether it can be queried, and its rows
    inflight,    \* bag of syncCompanyPlan invocations between their lookup and their write
    clock,       \* Date.now() as seen by the mutations
    seqRun,      \* history: a run of identical syncCompanyPlan calls made one at a time
    result,      \* outcome of the last guard / query call
    hook         \* useDebouncedValue: props, state and pending timers

vars == <<companies, members, jobs, inflight, clock, seqRun, result, hook>>

----------------------------------------------------------------------------
(* Bounds *)

MaxCompanies == 2      \* rows the companies table may hold
MaxInFlight == 2       \* syncCompanyPlan invocations in flight at once
MaxClock == 1          \* largest timestamp Date.now() returns
MaxGuardMembers == 2   \* companyMembers rows in the stores of GuardSpec
MaxUsageMembers == 3   \* companyMembers rows in the stores of UsageSpec
MaxJobs == 1           \* jobs rows in the stores of UsageSpec
MaxEffects == 3        \* times the hook's effect runs (mount and dependency changes)
MaxTime == 3           \* largest time the timers' clock reaches
MaxDelay == 2          \* largest delayMs

(* Values *)

None == "none"
Orgs == {"org_a", "org_b"}
Users == {"u1", "u2", "u3"}
GuardUsers == {"u1", "u2"}
QueryCompanyIds == {1, 2}
Roles == {"owner", "admin", "recruiter", "member"}
Statuses == {"pending", "active", "removed"}
\* (plan, seatLimit, jobLimit) triples the billing integration sends
\* (two of the plans "free", "starter", "growth")
Offers == {<<"free", 3, 5>>, <<"growth", 10, 20>>}

CompanyNotFound == "Company was not found."
NoAccess == "You do not have access to this company workspace."
InsufficientRole == "Insufficient company role permissions."
NotUnique == "unique() query returned more than one result"
Unauthenticated == "Unauthenticated"
JobsUnavailable == [available |-> FALSE, rows |-> <<>>]

----------------------------------------------------------------------------
(* Store helpers *)

\* mutant: the lookup compares the wrong field, so it never finds the row
CompanyByOrgWrongField(table, org) ==
    LET ids == {i \in DOMAIN table : table[i].name = org}
    IN  IF ids = {} THEN 0
        ELSE IF Cardinality(ids) = 1 THEN CHOOSE i \in ids : TRUE
        ELSE -1

\* ctx.db.query("companies").withIndex("by_clerkOrgId", eq).unique():
\* 0 when no row matches, the row's _id when one matches, -1 (throws) when several do
CompanyByOrg(table, org) ==
    LET ids == {i \in DOMAIN table : table[i].clerkOrgId = org}
    IN  IF ids = {} THEN 0
        ELSE IF Cardinality(ids) = 1 THEN CHOOSE i \in ids : TRUE
        ELSE -1

\* mutant: the patch also restamps createdAt
PatchCompanyRestamp(table, id, args, now) ==
    [table EXCEPT ![id] = [@ EXCEPT !.plan = args.plan,
                                    !.seatLimit = args.seatLimit,
                                    !.jobLimit = args.jobLimit,
                                    !.createdAt = now,
                                    !.updatedAt = now]]

\* ctx.db.patch(company._id, {plan, seatLimit, jobLimit, updatedAt})
PatchCompany(table, id, args, now) ==
    [table EXCEPT ![id] = [@ EXCEPT !.plan = args.plan,
                                    !.seatLimit = args.seatLimit,
                                    !.jobLimit = args.jobLimit,
                                    !.updatedAt = now]]

\* ctx.db.insert("companies", {...})
InsertCompany(table, args, now) ==
    Append(table, [clerkOrgId |-> args.clerkOrgId,
                   name |-> "",
                   plan |-> args.plan,
                   seatLimit |-> args.seatLimit,
                   jobLimit |-> args.jobLimit,
                   createdAt |-> now,
                   updatedAt |-> now])

SyncArgs ==
    {[clerkOrgId |-> o, plan |-> f[1], seatLimit |-> f[2], jobLimit |-> f[3]] :
        o \in Orgs, f \in Offers}

NoRun == [phase |-> 0]
NoResult == [op |-> "none"]

----------------------------------------------------------------------------
(* syncCompanyPlan *)

\* now = Date.now(); company = lookup by org id (first store step)
SyncLookup(args, now) ==
    /\ BagCardinality(inflight) < MaxInFlight
    /\ clock' = now
    /\ LET found == CompanyByOrg(companies, args.clerkOrgId)
           alone == inflight = EmptyBag
       IN  /\ inflight' =
                IF found = -1 THEN inflight
                ELSE inflight (+) SetToBag({[args |-> args, now |-> now, company |-> found]})
           /\ seqRun' =
                IF ~alone \/ found = -1 THEN NoRun
                ELSE IF seqRun.phase = 2 /\ seqRun.args = args THEN [seqRun EXCEPT !.phase = 3]
                ELSE IF found = 0 THEN [phase |-> 1, args |-> args]
                ELSE NoRun
    /\ UNCHANGED <<companies, members, jobs, result, hook>>

\* if (company) patch else insert (second store step)
SyncWrite(inv) ==
    /\ BagIn(inv, inflight)
    /\ inv.company = 0 => Len(companies) < MaxCompanies
    /\ companies' =
         IF inv.company # 0
         THEN PatchCompany(companies, inv.company, inv.args, inv.now)
         ELSE InsertCompany(companies, inv.args, inv.now)
    /\ inflight' = inflight (-) SetToBag({inv})
    /\ seqRun' = IF seqRun.phase \in {1, 3} THEN [seqRun EXCEPT !.phase = @ + 1] ELSE NoRun
    /\ UNCHANGED <<members, jobs, clock, result, hook>>

SyncStep ==
    \/ \E args \in SyncArgs, now \in clock..MaxClock : SyncLookup(args, now)
    \/ \E inv \in BagToSet(inflight) : SyncWrite(inv)

Init ==
    /\ companies = <<>>
    /\ members = {}
    /\ jobs = JobsUnavailable
    /\ inflight = EmptyBag
    /\ clock = 0
    /\ seqRun = NoRun
    /\ result = NoResult
    /\ hook = None

Next == SyncStep

Spec == Init /\ [][Next]_vars

----------------------------------------------------------------------------
(* Authorization guards *)

\* a call's outcome: value holds what it returned (nothing for null or a throw)
Ok(v) == [ok |-> TRUE, value |-> <<v>>, error |-> None]
Null == [ok |-> TRUE, value |-> <<>>, error |-> None]
Fail(e) == [ok |-> FALSE, value |-> <<>>, error |-> e]
Call(op, args, out) == [op |-> op, args |-> args, out |-> out]

\* ctx.db.query("companyMembers").withIndex("by_companyId_userId", eq, eq):
\* the rows of the pair; unique() gives null for none, the row for one, throws for more
MemberByPair(companyId, userId) ==
    {m \in members : m.companyId = companyId /\ m.userId = userId}

\* mutant: the guard only turns removed members away
RequireActiveMembershipLax(companyId, userId) ==
    LET rows == MemberByPair(companyId, userId)
        membership == CHOOSE m \in rows : TRUE
    IN  IF Cardinality(rows) > 1 THEN Fail(NotUnique)
        ELSE IF rows = {} THEN Fail(NoAccess)
        ELSE IF membership.status = "removed" THEN Fail(NoAccess)
        ELSE Ok(membership)

RequireActiveMembership(companyId, userId) ==
    LET rows == MemberByPair(companyId, userId)
        membership == CHOOSE m \in rows : TRUE
    IN  IF Cardinality(rows) > 1 THEN Fail(NotUnique)
        ELSE IF rows = {} THEN Fail(NoAccess)
        ELSE IF membership.status # "active" THEN Fail(NoAccess)
        ELSE Ok(membership)

\* mutant: the role test is skipped for an empty allowed list
RequireCompanyRoleSkipEmpty(companyId, userId, allowedRoles) ==
    LET active == RequireActiveMembership(companyId, userId)
    IN  IF ~active.ok THEN active
        ELSE IF allowedRoles # {} /\ active.value[1].role \notin allowedRoles
             THEN Fail(InsufficientRole)
        ELSE active

RequireCompanyRole(companyId, userId, allowedRoles) ==
    LET active == RequireActiveMembership(companyId, userId)
    IN  IF ~active.ok THEN active
        ELSE IF active.value[1].role \notin allowedRoles THEN Fail(InsufficientRole)
        ELSE active

\* mutant: a missing row comes back as null instead of throwing
RequireCompanyNull(companyId) ==
    IF companyId \notin DOMAIN companies THEN Null
    ELSE Ok(companies[companyId])

\* ctx.db.get(companyId); throw when null
RequireCompany(companyId) ==
    IF companyId \notin DOMAIN companies THEN Fail(CompanyNotFound)
    ELSE Ok(companies[companyId])

\* the session's user as the auth collaborator resolves it; throws when there is none
RequireViewerUser(viewer) ==
    IF viewer = None THEN Fail(Unauthenticated) ELSE Ok(viewer)

----------------------------------------------------------------------------
(* Queries *)

GetMyCompanyContext(viewer, clerkOrgId) ==
    IF viewer = None THEN Null
    ELSE LET company == CompanyByOrg(companies, clerkOrgId)
         IN  IF company = -1 THEN Fail(NotUnique)
             ELSE IF company = 0 THEN Null
             ELSE LET rows == MemberByPair(company, viewer)
                      membership == CHOOSE m \in rows : TRUE
                  IN  IF Cardinality(rows) > 1 THEN Fail(NotUnique)
                      ELSE Ok([companyId |-> company,
                               companyName |-> companies[company].name,
                               role |-> IF rows = {} THEN "member"
                                        ELSE membership.role,
                               seatLimit |-> companies[company].seatLimit,
                               jobLimit |-> companies[company].jobLimit])

\* mutant: every row that is not active counts as active too
GetCompanyUsageAllActive(companyId) ==
    LET rows == {m \in members : m.companyId = companyId}
        companyJobs == {k \in DOMAIN jobs.rows : jobs.rows[k].companyId = companyId}
    IN  [activeMemberCount |-> Cardinality(rows),
         invitedMemberCount |-> Cardinality({m \in rows : m.status # "active"}),
         activeJobCount |->
             IF ~jobs.available THEN 0
             ELSE Cardinality({k \in companyJobs : jobs.rows[k].isActive}),
         totalJobCount |-> IF ~jobs.available THEN 0 ELSE Cardinality(companyJobs)]

GetCompanyUsage(companyId) ==
    LET rows == {m \in members : m.companyId = companyId}
        companyJobs == {k \in DOMAIN jobs.rows : jobs.rows[k].companyId = companyId}
    IN  [activeMemberCount |-> Cardinality({m \in rows : m.status = "active"}),
         invitedMemberCount |-> Cardinality({m \in rows : m.status # "active"}),
         activeJobCount |->
             IF ~jobs.available THEN 0
             ELSE Cardinality({k \in companyJobs : jobs.rows[k].isActive}),
         totalJobCount |-> IF ~jobs.available THEN 0 ELSE Cardinality(companyJobs)]

\* mutant: the jobs are not filtered by company
MyUsageCountsEveryJob(companyId) ==
    LET rows == {m \in members : m.companyId = companyId}
        companyJobs == DOMAIN jobs.rows
    IN  [activeMemberCount |-> Cardinality({m \in rows : m.status = "active"}),
         invitedMemberCount |-> Cardinality({m \in rows : m.status # "active"}),
         activeJobCount |->
             IF ~jobs.available THEN 0
             ELSE Cardinality({k \in companyJobs : jobs.rows[k].isActive}),
         totalJobCount |-> IF ~jobs.available THEN 0 ELSE Cardinality(companyJobs)]

\* the aggregation of getMyCompanyUsage, which repeats that of getCompanyUsage
MyUsageCounts(companyId) ==
    LET rows == {m \in members : m.companyId = companyId}
        companyJobs == {k \in DOMAIN jobs.rows : jobs.rows[k].companyId = companyId}
    IN  [activeMemberCount |-> Cardinality({m \in rows : m.status = "active"}),
         invitedMemberCount |-> Cardinality({m \in rows : m.status # "active"}),
         activeJobCount |->
             IF ~jobs.available THEN 0
             ELSE Cardinality({k \in companyJobs : jobs.rows[k].isActive}),
         totalJobCount |-> IF ~jobs.available THEN 0 ELSE Cardinality(companyJobs)]

\* out.aggregated tells whether the handler went on to read the tables
GetMyCompanyUsage(viewer, companyId) ==
    LET user == RequireViewerUser(viewer)
        active == RequireActiveMembership(companyId, viewer)
    IN  IF ~user.ok THEN [user EXCEPT !.value = <<>>] @@ [aggregated |-> FALSE]
        ELSE IF ~active.ok THEN [active EXCEPT !.value = <<>>] @@ [aggregated |-> FALSE]
        ELSE Ok(MyUsageCounts(companyId)) @@ [aggregated |-> TRUE]

AllowedSets == {{"owner", "admin"}, {"recruiter", "member"}, {}, Roles}
Viewers == Users \cup {None}

CallRequireActiveMembership(companyId, userId) ==
    /\ result' = Call("requireActiveMembership",
                      [companyId |-> companyId, userId |-> userId],
                      RequireActiveMembership(companyId, userId))
    /\ UNCHANGED <<companies, members, jobs, inflight, clock, seqRun, hook>>

CallRequireCompanyRole(companyId, userId, allowedRoles) ==
    /\ result' = Call("requireCompanyRole",
                      [companyId |-> companyId, userId |-> userId,
                       allowedRoles |-> allowedRoles],
                      RequireCompanyRole(companyId, userId, allowedRoles))
    /\ UNCHANGED <<companies, members, jobs, inflight, clock, seqRun, hook>>

CallRequireCompany(companyId) ==
    /\ result' = Call("requireCompany", [companyId |-> companyId],
                      RequireCompany(companyId))
    /\ UNCHANGED <<companies, members, jobs, inflight, clock, seqRun, hook>>

CallGetMyCompanyContext(viewer, clerkOrgId) ==
    /\ result' = Call("getMyCompanyContext",
                      [viewer |-> viewer, clerkOrgId |-> clerkOrgId],
                      GetMyCompanyContext(viewer, clerkOrgId))
    /\ UNCHANGED <<companies, members, jobs, inflight, clock, seqRun, hook>>

CallGetCompanyUsage(companyId) ==
    /\ result' = Call("getCompanyUsage", [companyId |-> companyId],
                      Ok(GetCompanyUsage(companyId)))
    /\ UNCHANGED <<companies, members, jobs, inflight, clock, seqRun, hook>>

CallGetMyCompanyUsage(viewer, companyId) ==
    /\ result' = Call("getMyCompanyUsage",
                      [viewer |-> viewer, companyId |-> companyId],
                      GetMyCompanyUsage(viewer, companyId))
    /\ UNCHANGED <<companies, members, jobs, inflight, clock, seqRun, hook>>

----------------------------------------------------------------------------
(* Stores the read-only specifications start from *)

MemberRow(pair, role, status) ==
    [companyId |-> pair[1], userId |-> pair[2], role |-> role, status |-> status,
     invitedAt |-> 0, updatedAt |-> 0]

\* members holds at most n rows, at most one per (company, user) pair
MembersDrawn(companyIds, users, roles, n) ==
    \E pairs \in {P \in SUBSET (companyIds \X users) : Cardinality(P) <= n} :
       \E f \in [pairs -> roles \X Statuses] :
          members = {MemberRow(pr, f[pr][1], f[pr][2]) : pr \in pairs}

JobRows == [companyId : QueryCompanyIds, isActive : BOOLEAN]

JobTables ==
    {JobsUnavailable} \cup
    {[available |-> TRUE, rows |-> r] : r \in UNION {[1..n -> JobRows] : n \in 0..MaxJobs}}

\* the tables that n inserts of syncCompanyPlan leave behind, org ids repeated
\* or not (two racing invocations insert the same org id twice)
RECURSIVE InsertedTables(_)
InsertedTables(n) ==
    IF n = 0 THEN {<<>>}
    ELSE LET shorter == InsertedTables(n - 1)
         IN  shorter \cup {InsertCompany(t, a, 0) : t \in shorter, a \in SyncArgs}

Quiet ==
    /\ inflight = EmptyBag
    /\ clock = 0
    /\ seqRun = NoRun
    /\ result = NoResult
    /\ hook = None

GuardInit ==
    /\ companies = <<>>
    /\ MembersDrawn(QueryCompanyIds, GuardUsers, Roles, MaxGuardMembers)
    /\ jobs = JobsUnavailable
    /\ Quiet

GuardNext ==
    \/ \E c \in QueryCompanyIds, u \in GuardUsers : CallRequireActiveMembership(c, u)
    \/ \E c \in QueryCompanyIds, u \in GuardUsers, r \in AllowedSets :
          CallRequireCompanyRole(c, u, r)

GuardSpec == GuardInit /\ [][GuardNext]_vars

UsageInit ==
    /\ companies = <<>>
    /\ MembersDrawn(QueryCompanyIds, Users, {"member"}, MaxUsageMembers)
    /\ jobs \in JobTables
    /\ Quiet

UsageNext ==
    \/ \E c \in QueryCompanyIds : CallGetCompanyUsage(c)
    \/ \E v \in Viewers, c \in QueryCompanyIds : CallGetMyCompanyUsage(v, c)

UsageSpec == UsageInit /\ [][UsageNext]_vars

ReadInit ==
    /\ companies \in InsertedTables(MaxCompanies)
    /\ MembersDrawn(DOMAIN companies, Users, Roles, 1)
    /\ jobs = JobsUnavailable
    /\ Quiet

ReadNext ==
    \/ \E c \in 1..(MaxCompanies + 1) : CallRequireCompany(c)
    \/ \E v \in Viewers, o \in Orgs : CallGetMyCompanyContext(v, o)

ReadSpec == ReadInit /\ [][ReadNext]_vars

----------------------------------------------------------------------------
(* useDebouncedValue *)

Values == {"a", "b"}
Delays == 0..MaxDelay

\* mutant: the cleanup leaves the timer running
ClearTimeoutForgotten(timers, timer) == timers

\* window.clearTimeout(timer)
ClearTimeout(timers, timer) == {t \in timers : t.id # timer}

\* window.setTimeout(() => setDebouncedValue(value), delayMs): the callback keeps
\* the value of the render that started it
SetTimeout(timers, id, value, delayMs, now) ==
    timers \cup {[id |-> id, value |-> value, due |-> now + delayMs]}

\* the effect of one render: where it ran, and when its dependencies changed (-1: not yet)
Effect(value, delayMs, now) ==
    [value |-> value, delayMs |-> delayMs, at |-> now, replacedAt |-> -1]

\* first render: useState(value), then the effect starts the first timer
HookMount(value, delayMs) ==
    hook = [mounted |-> TRUE,
            value |-> value,
            delayMs |-> delayMs,
            debouncedValue |-> value,
            timers |-> SetTimeout({}, 1, value, delayMs, 0),
            timer |-> 1,
            now |-> 0,
            effects |-> <<Effect(value, delayMs, 0)>>,
            published |-> {}]

\* a render with a changed value or delayMs: the previous effect's cleanup runs,
\* then the effect runs again
HookRender(value, delayMs) ==
    /\ hook.mounted
    /\ <<value, delayMs>> # <<hook.value, hook.delayMs>>
    /\ Len(hook.effects) < MaxEffects
    /\ LET id == Len(hook.effects) + 1
       IN  hook' = [hook EXCEPT
                      !.value = value,
                      !.delayMs = delayMs,
                      !.timers = SetTimeout(ClearTimeout(@, hook.timer), id,
                                            value, delayMs, hook.now),
                      !.timer = id,
                      !.effects = Append([@ EXCEPT ![hook.timer].replacedAt = hook.now],
                                         Effect(value, delayMs, hook.now))]
    /\ UNCHANGED <<companies, members, jobs, inflight, clock, seqRun, result>>

\* a timer that is due runs its callback: setDebouncedValue(value)
HookFire(t) ==
    /\ t \in hook.timers
    /\ hook.now >= t.due
    /\ hook' = [hook EXCEPT
                  !.debouncedValue = t.value,
                  !.timers = @ \ {t},
                  !.published = @ \cup {[id |-> t.id, value |-> t.value,
                                         at |-> hook.now, input |-> hook.value]}]
    /\ UNCHANGED <<companies, members, jobs, inflight, clock, seqRun, result>>

\* unmount: the effect's cleanup runs
HookUnmount ==
    /\ hook.mounted
    /\ hook' = [hook EXCEPT !.mounted = FALSE,
                            !.timers = ClearTimeout(@, hook.timer)]
    /\ UNCHANGED <<companies, members, jobs, inflight, clock, seqRun, result>>

HookTick ==
    /\ hook.now < MaxTime
    /\ hook' = [hook EXCEPT !.now = @ + 1]
    /\ UNCHANGED <<companies, members, jobs, inflight, clock, seqRun, result>>

HookInit ==
    /\ companies = <<>>
    /\ members = {}
    /\ jobs = JobsUnavailable
    /\ inflight = EmptyBag
    /\ clock = 0
    /\ seqRun = NoRun
    /\ result = NoResult
    /\ \E v \in Values, d \in Delays : HookMount(v, d)

HookNext ==
    \/ \E v \in Values, d \in Delays : HookRender(v, d)
    \/ \E t \in hook.timers : HookFire(t)
    \/ HookUnmount
    \/ HookTick

HookSpec == HookInit /\ [][HookNext]_vars

----------------------------------------------------------------------------
(* Claims on syncCompanyPlan, checked under Spec *)

\* C3: in every reachable state there is at most one Company row per external
\* org id, also when the lookup and the insert/patch of several invocations
\* interleave.
UniqueOrg ==
    \A i, j \in DOMAIN companies :
        companies[i].clerkOrgId = companies[j].clerkOrgId => i = j

RowsOf(org) == {i \in DOMAIN companies : companies[i].clerkOrgId = org}

\* C4: two invocations with identical arguments, run one after the other to
\* completion on an org id that had no row, leave exactly one row for that org
\* id, and it carries the given plan, seatLimit and jobLimit.
SyncIdempotent ==
    seqRun.phase = 4 =>
        /\ Cardinality(RowsOf(seqRun.args.clerkOrgId)) = 1
        /\ \A i \in RowsOf(seqRun.args.clerkOrgId) :
              /\ companies[i].plan = seqRun.args.plan
              /\ companies[i].seatLimit = seqRun.args.seatLimit
              /\ companies[i].jobLimit = seqRun.args.jobLimit

SyncIdempotentWitness ==
    /\ seqRun.phase = 4
    /\ Len(companies) = 1

\* C9: an invocation that found a row for its org id changes only that row's
\* plan, seatLimit, jobLimit and updatedAt; one that found none inserts exactly
\* one row, with name "" and createdAt = updatedAt; no step deletes a row,
\* changes a row's clerkOrgId, name or createdAt, or touches the memberships.
SyncFrame ==
    [][ /\ members' = members
        /\ \A i \in DOMAIN companies :
              /\ i \in DOMAIN companies'
              /\ companies'[i].clerkOrgId = companies[i].clerkOrgId
              /\ companies'[i].name = companies[i].name
              /\ companies'[i].createdAt = companies[i].createdAt
        /\ companies' # companies =>
              \E inv \in BagToSet(inflight) :
                 /\ inflight' = inflight (-) SetToBag({inv})
                 /\ IF inv.company # 0
                    THEN /\ Len(companies') = Len(companies)
                         /\ companies[inv.company].clerkOrgId = inv.args.clerkOrgId
                         /\ \A i \in DOMAIN companies :
                               i # inv.company => companies'[i] = companies[i]
                         /\ companies'[inv.company].plan = inv.args.plan
                         /\ companies'[inv.company].seatLimit = inv.args.seatLimit
                         /\ companies'[inv.company].jobLimit = inv.args.jobLimit
                         /\ companies'[inv.company].updatedAt = inv.now
                    ELSE /\ Len(companies') = Len(companies) + 1
                         /\ \A i \in DOMAIN companies : companies'[i] = companies[i]
                         /\ LET row == companies'[Len(companies')]
                            IN  /\ row.clerkOrgId = inv.args.clerkOrgId
                                /\ row.name = ""
                                /\ row.createdAt = row.updatedAt
                                /\ row.plan = inv.args.plan
                                /\ row.seatLimit = inv.args.seatLimit
                                /\ row.jobLimit = inv.args.jobLimit
      ]_vars

\* a row patched after its insertion, beside a row of another org left alone
SyncFrameWitness ==
    /\ Len(companies) = 2
    /\ UniqueOrg
    /\ \E i \in DOMAIN companies :
          /\ companies[i].updatedAt > companies[i].createdAt
          /\ companies[i].plan = "growth"

----------------------------------------------------------------------------
(* Claims on the guards, checked under GuardSpec *)

\* the error class of the two authorization failures
AccessDenied == {NoAccess, InsufficientRole}
\* the error class of a missing company
NotFound == {CompanyNotFound}

ActiveRows(companyId, userId) ==
    {m \in members : /\ m.companyId = companyId
                     /\ m.userId = userId
                     /\ m.status = "active"}

\* C1: requireActiveMembership(companyId, userId) succeeds, returning the
\* membership, exactly when the pair has a row with status "active"; with no
\* row, or a pending or removed one, it fails with AccessDenied.
ActiveMembershipIff ==
    result.op = "requireActiveMembership" =>
        LET active == ActiveRows(result.args.companyId, result.args.userId)
        IN  /\ result.out.ok <=> active # {}
            /\ result.out.ok => result.out.value[1] \in active
            /\ ~result.out.ok => result.out.error \in AccessDenied

\* a pending member of the company is turned away
ActiveMembershipWitness ==
    /\ result.op = "requireActiveMembership"
    /\ ~result.out.ok
    /\ \E m \in members : /\ m.companyId = result.args.companyId
                          /\ m.userId = result.args.userId
                          /\ m.status = "pending"

\* C2: requireCompanyRole succeeds exactly when the pair has an active
\* membership whose role is in allowedRoles; otherwise it fails with
\* AccessDenied.
CompanyRoleIff ==
    result.op = "requireCompanyRole" =>
        LET allowed == {m \in ActiveRows(result.args.companyId, result.args.userId) :
                           m.role \in result.args.allowedRoles}
        IN  /\ result.out.ok <=> allowed # {}
            /\ result.out.ok => result.out.value[1] \in allowed
            /\ ~result.out.ok => result.out.error \in AccessDenied

\* an active recruiter against allowedRoles = {owner, admin}
CompanyRoleWitness ==
    /\ result.op = "requireCompanyRole"
    /\ result.args.allowedRoles = {"owner", "admin"}
    /\ ~result.out.ok
    /\ \E m \in ActiveRows(result.args.companyId, result.args.userId) :
          m.role = "recruiter"

----------------------------------------------------------------------------
(* Claims on the usage queries, checked under UsageSpec *)

RowsOfCompany(companyId) == {m \in members : m.companyId = companyId}

\* C5: for an authenticated caller, getMyCompanyUsage fails with AccessDenied,
\* before any aggregation, unless the caller's membership in the company is
\* active; when it is, it returns what getCompanyUsage returns in that state.
MyUsageGuarded ==
    (result.op = "getMyCompanyUsage" /\ result.args.viewer # None) =>
        IF ActiveRows(result.args.companyId, result.args.viewer) # {}
        THEN /\ result.out.ok
             /\ result.out.aggregated
             /\ result.out.value = <<GetCompanyUsage(result.args.companyId)>>
        ELSE /\ ~result.out.ok
             /\ result.out.error \in AccessDenied
             /\ ~result.out.aggregated
             /\ result.out.value = <<>>

\* a pending member asks for the usage of a company that has active members
MyUsageWitness ==
    /\ result.op = "getMyCompanyUsage"
    /\ ~result.out.ok
    /\ \E m \in RowsOfCompany(result.args.companyId) :
          m.userId = result.args.viewer /\ m.status = "pending"
    /\ \E m \in RowsOfCompany(result.args.companyId) : m.status = "active"

\* C6: getCompanyUsage counts the company's active rows and its pending or
\* removed rows, which together are all of the company's rows, and reports
\* both job counts as 0 when the jobs table is unavailable.
UsageCounts ==
    result.op = "getCompanyUsage" =>
        LET rows == RowsOfCompany(result.args.companyId)
            usage == result.out.value[1]
        IN  /\ result.out.ok
            /\ usage.activeMemberCount =
                  Cardinality({m \in rows : m.status = "active"})
            /\ usage.invitedMemberCount =
                  Cardinality({m \in rows : m.status \in {"pending", "removed"}})
            /\ usage.activeMemberCount + usage.invitedMemberCount = Cardinality(rows)
            /\ ~jobs.available =>
                  usage.activeJobCount = 0 /\ usage.totalJobCount = 0

\* two active members and a removed one, no jobs table
UsageCountsWitness ==
    /\ result.op = "getCompanyUsage"
    /\ ~jobs.available
    /\ result.out.value = <<[activeMemberCount |-> 2, invitedMemberCount |-> 1,
                             activeJobCount |-> 0, totalJobCount |-> 0]>>
    /\ \E m \in RowsOfCompany(result.args.companyId) : m.status = "removed"

----------------------------------------------------------------------------
(* Claims on the company reads, checked under ReadSpec *)

\* C7: getMyCompanyContext returns null for an unauthenticated caller or an
\* org id without a row; otherwise it returns the company's id, name,
\* seatLimit and jobLimit, with the caller's membership role, or "member"
\* when the caller has no membership row.
ContextProjection ==
    result.op = "getMyCompanyContext" =>
        IF result.args.viewer = None \/ RowsOf(result.args.clerkOrgId) = {}
        THEN result.out = Null
        ELSE /\ result.out.ok
             /\ \E i \in RowsOf(result.args.clerkOrgId) :
                   LET mine == MemberByPair(i, result.args.viewer)
                       context == result.out.value[1]
                   IN  /\ Len(result.out.value) = 1
                       /\ context.companyId = i
                       /\ context.companyName = companies[i].name
                       /\ context.seatLimit = companies[i].seatLimit
                       /\ context.jobLimit = companies[i].jobLimit
                       /\ mine = {} => context.role = "member"
                       /\ \A m \in mine : context.role = m.role

\* C8: requireCompany fails with NotFound when no row has the id, and
\* otherwise returns exactly the stored row.
RequireCompanyExact ==
    result.op = "requireCompany" =>
        IF result.args.companyId \in DOMAIN companies
        THEN result.out = Ok(companies[result.args.companyId])
        ELSE ~result.out.ok /\ result.out.error \in NotFound

\* an id past the last row of a table that holds companies
RequireCompanyWitness ==
    /\ result.op = "requireCompany"
    /\ ~result.out.ok
    /\ companies # <<>>

----------------------------------------------------------------------------
(* Claims on useDebouncedValue, checked under HookSpec *)

\* C10: at most one timer is pending; an input replaced before its delayMs
\* elapsed is never published; and a timer publishes the input value that is
\* current when it fires.
DebounceLatest ==
    /\ Cardinality(hook.timers) <= 1
    /\ \A p \in hook.published :
          LET e == hook.effects[p.id]
          IN  /\ ~(e.replacedAt # -1 /\ e.replacedAt < e.at + e.delayMs)
              /\ p.value = p.input
    /\ hook.debouncedValue \in
          {hook.effects[1].value} \cup {p.value : p \in hook.published}

\* an input was replaced within its delay, and a later one was published
DebounceWitness ==
    /\ \E k \in DOMAIN hook.effects :
          /\ hook.effects[k].replacedAt # -1
          /\ hook.effects[k].replacedAt < hook.effects[k].at + hook.effects[k].delayMs
    /\ hook.published # {}
    /\ hook.debouncedValue # hook.effects[1].value
====
